---- MODULE Spec2Model ----
(***************************************************************************)
(* ML-Email-Automation: the processing cycle of EmailAutomationSystem      *)
(* (src/src/main.py), the classifier port ModelPredictor                   *)
(* (src/src/model_predictor.py), the mail port EmailHandler.fetch_emails   *)
(* (src/src/email_handler.py), the form actor AutomationEngine            *)
(* (src/src/automation_engine.py) and the BackgroundScheduler the system   *)
(* drives through start_scheduler / stop_scheduler; and main(), the        *)
(* process that constructs the system and runs it in one of its two modes. *)
(*                                                                         *)
(* Confidence scores are fixed-point hundredths: 85 stands for 0.85.       *)
(* A text is a sequence of tokens; "\n" is the newline token, "u1" and     *)
(* "u2" are URL-shaped tokens, every other token is a plain word.          *)
(***************************************************************************)
EXTENDS Integers, Sequences, FiniteSets, TLC

\* ------------------------------------------------------------------ bounds
\* Longest batch the mail service lists in one cycle (the code caps at 10).
MaxBatch == 3
\* Longest list handed to predict_batch.
MaxList == 2
\* Most collaborator calls of one cycle that end in an escaping exception.
MaxFaults == 1
\* Longest body handed to the form actor directly, in tokens.
MaxBody == 3

\* --------------------------------------------------------- program constants
\* main.py:63  confidence > 0.85
Threshold == 85
\* model_predictor.py:73  prediction[0][0] > 0.5
LabelCut == 50
\* main.py:84-90  add_job without max_instances: the scheduler's default of 1
MaxInstances == 1

VARIABLES
    unread,      \* the mailbox: the messages that carry the UNREAD label
    proc,        \* the process running main(): [pc, mode, code, fatal, cause, released]
    predictor,   \* ModelPredictor: [model, tokenizer], TRUE = loaded
    driver,      \* AutomationEngine.driver: TRUE = a WebDriver, FALSE = None
    sched,       \* BackgroundScheduler: [state, jobs, instances, pool, missed]
    caller,      \* the thread using the system's API: [pc, op, error, mid]
    cyc,         \* the process_emails execution: [pc, owner, batch, i, listing,
                 \*   result, after, faults]
    log,         \* what the execution in progress did, in order: <<event, index>>
    api          \* last call on ModelPredictor's API: [op, arg, ret]

vars == <<unread, proc, predictor, driver, sched, caller, cyc, log, api>>

\* ------------------------------------------------------------------- data
NL == "\n"
UrlTokens == {"u1", "u2"}

\* Subjects stand for the classes of text the loaded model tells apart.
Subjects == {"win", "edge", "spam", "bad", "odd"}

\* The messages of the mailbox (email_handler.py:108-114): one that
\* qualifies and links to a form, one that qualifies and holds no link, one
\* scored exactly 0.85, one scored as not legitimate.
Giveaway == [subject |-> "win", body |-> <<"w", "u1", "w", "u2">>]
Mails ==
    { Giveaway,
      [subject |-> "win",  body |-> <<"w">>],
      [subject |-> "edge", body |-> <<"u1">>],
      [subject |-> "spam", body |-> <<"w">>] }

RECURSIVE SeqsUpTo(_, _)
SeqsUpTo(S, n) ==
    IF n = 0 THEN {<<>>}
    ELSE LET shorter == SeqsUpTo(S, n - 1)
         IN  shorter \cup { Append(s, x) : s \in {t \in shorter : Len(t) = n - 1}, x \in S }

\* What a listing may return: some messages of the mailbox, each once, in
\* the order the mail service gives them.
Batches ==
    { b \in SeqsUpTo(Mails, MaxBatch) :
        \A j, k \in 1..Len(b) : j # k => b[j] # b[k] }

\* The texts handed to the classifier directly: the empty text and one per class.
Texts == {<<>>} \cup { <<s>> : s \in Subjects }
TextLists == SeqsUpTo(Texts, MaxList)

\* The bodies handed to the form actor directly: every short text of plain
\* words and URLs, and "Visit http://example.com/win now and also
\* https://other.com/x", u1 standing for the first URL and u2 for the second.
ExampleBody == <<"w", "u1", "w", "w", "w", "u2">>
Bodies == SeqsUpTo({"w"} \cup UrlTokens, MaxBody) \cup {ExampleBody}

\* The dictionaries handed to participate_in_giveaway: with a body, or
\* without the key.
EmailData == { [subject |-> "win", body |-> b] : b \in Bodies } \cup { [subject |-> "win"] }

\* main.py:103-115  f"{subject}\n{body}"
extract_email_text(email) == <<email.subject, NL>> \o email.body

\* ------------------------------------------------------------- classifier
\* What tokenizer.texts_to_sequences / pad_sequences do with a text
\* (model_predictor.py:46-52): "ok", or "raise" for a text they reject.
tokenize(text) ==
    IF text # <<>> /\ Head(text) = "odd" THEN "raise" ELSE "ok"

\* What the loaded network answers for a text (model_predictor.py:72, 96):
\* [kind |-> "score", score |-> hundredths] or [kind |-> "raise"].
model_predict(text) ==
    IF text = <<>> THEN [kind |-> "score", score |-> 0]
    ELSE CASE Head(text) = "win"  -> [kind |-> "score", score |-> 86]
           [] Head(text) = "edge" -> [kind |-> "score", score |-> 85]
           [] Head(text) = "spam" -> [kind |-> "score", score |-> 50]
           [] Head(text) = "bad"  -> [kind |-> "raise", score |-> 0]
           [] OTHER               -> [kind |-> "score", score |-> 51]

\* model_predictor.py:33-52
preprocess_text(p, text) ==
    IF ~p.tokenizer THEN "none" ELSE tokenize(text)

Returned(v) == [raised |-> FALSE, value |-> v]
Raised(v)   == [raised |-> TRUE,  value |-> v]

\* model_predictor.py:54-77 without its try/except: the error escapes.
predict_unguarded(p, text) ==
    IF ~p.model \/ ~p.tokenizer THEN Returned(FALSE)
    ELSE IF preprocess_text(p, text) = "raise" THEN Raised(FALSE)
    ELSE IF preprocess_text(p, text) = "none" THEN Returned(FALSE)
    ELSE IF model_predict(text).kind = "raise" THEN Raised(FALSE)
    ELSE Returned(model_predict(text).score > LabelCut)

\* model_predictor.py:54-77
predict(p, text) ==
    IF ~p.model \/ ~p.tokenizer THEN Returned(FALSE)
    ELSE IF preprocess_text(p, text) = "raise" THEN Returned(FALSE)
    ELSE IF preprocess_text(p, text) = "none" THEN Returned(FALSE)
    ELSE IF model_predict(text).kind = "raise" THEN Returned(FALSE)
    ELSE Returned(model_predict(text).score > LabelCut)

\* model_predictor.py:79-101
get_confidence_score(p, text) ==
    IF ~p.model \/ ~p.tokenizer THEN Returned(0)
    ELSE IF preprocess_text(p, text) = "raise" THEN Returned(0)
    ELSE IF preprocess_text(p, text) = "none" THEN Returned(0)
    ELSE IF model_predict(text).kind = "raise" THEN Returned(0)
    ELSE Returned(model_predict(text).score)

\* model_predictor.py:103-112 with the results collected in reverse order.
RECURSIVE predict_batch_reversed(_, _)
predict_batch_reversed(p, email_list) ==
    IF email_list = <<>> THEN Returned(<<>>)
    ELSE LET first == predict(p, Head(email_list))
             rest  == predict_batch_reversed(p, Tail(email_list))
         IN  IF first.raised \/ rest.raised THEN Raised(<<>>)
             ELSE Returned(rest.value \o <<first.value>>)

\* model_predictor.py:103-112  [self.predict(email) for email in email_list]
RECURSIVE predict_batch(_, _)
predict_batch(p, email_list) ==
    IF email_list = <<>> THEN Returned(<<>>)
    ELSE LET first == predict(p, Head(email_list))
             rest  == predict_batch(p, Tail(email_list))
         IN  IF first.raised \/ rest.raised THEN Raised(<<>>)
             ELSE Returned(<<first.value>> \o rest.value)

\* ----------------------------------------------------------- email source
\* The elements of s whose index is in keep, in order.
RECURSIVE Keep(_, _, _)
Keep(s, keep, k) ==
    IF k > Len(s) THEN <<>>
    ELSE (IF k \in keep THEN <<s[k]>> ELSE <<>>) \o Keep(s, keep, k + 1)

\* What messages().list(...).execute() does (email_handler.py:66-70): it
\* returns the listed messages, raises HttpError, or raises another error
\* (a transport, timeout or credentials error).
ListResults ==
    { [kind |-> "ok", messages |-> b] : b \in Batches }
        \cup { [kind |-> k, messages |-> <<>>] : k \in {"http_error", "other_error"} }

\* email_handler.py:50-84; parsed = the indices whose _parse_email returned
\* a dictionary rather than None (email_handler.py:86-118).
fetch_emails(list_result, parsed) ==
    IF list_result.kind = "http_error" THEN Returned(<<>>)
    ELSE IF list_result.kind = "other_error" THEN Raised(<<>>)
    ELSE Returned(Keep(list_result.messages, parsed, 1))

\* email_handler.py:172-190 on the mailbox u: the UNREAD label is taken off
\* msg and True returned, or the request fails with HttpError and False is.
\* No action of the system applies it (nothing under src/ calls it).
mark_as_read(u, msg, ok) ==
    IF ok THEN [value |-> TRUE, unread |-> u \ {msg}]
    ELSE [value |-> FALSE, unread |-> u]

\* ------------------------------------------------------------- form actor
\* automation_engine.py:77-88 with the last match taken: urls[-1].
RECURSIVE extract_link_last(_)
extract_link_last(text) ==
    IF text = <<>> THEN "none"
    ELSE IF text[Len(text)] \in UrlTokens THEN text[Len(text)]
    ELSE extract_link_last(SubSeq(text, 1, Len(text) - 1))

\* automation_engine.py:77-88  re.findall(...)[0], or None
RECURSIVE extract_link(_)
extract_link(text) ==
    IF text = <<>> THEN "none"
    ELSE IF Head(text) \in UrlTokens THEN Head(text)
    ELSE extract_link(Tail(text))

\* automation_engine.py:57  email_data.get('body', ''): the value under key,
\* or default when the dictionary has no such key.
get(d, key, default) == IF key \in DOMAIN d THEN d[key] ELSE default

\* What the page the browser is on does with each of the three controls the
\* engine looks for: "ok" (found and operated), "missing" (find_elements
\* returns no element) or "raise" (the lookup or the operation raises).
Pages == [email : {"ok", "missing", "raise"},
          text : {"ok", "missing", "raise"},
          submit : {"ok", "missing", "raise"}]

\* The browser calls made for one control.
Operate(control, status, op) ==
    IF status = "ok" THEN <<<<"find", control>>, <<op, control>>>>
    ELSE <<<<"find", control>>>>

\* automation_engine.py:90-110 without its try/except: the error escapes.
fill_form_unguarded(page) ==
    IF page.email = "raise"
    THEN [raised |-> TRUE, calls |-> Operate("email", page.email, "send_keys")]
    ELSE [raised |-> page.text = "raise",
          calls |-> Operate("email", page.email, "send_keys")
                        \o Operate("text", page.text, "send_keys")]

\* automation_engine.py:90-110: the email field, then the name field; an
\* error ends the filling and is logged as a warning.
fill_form(page) ==
    IF page.email = "raise"
    THEN [raised |-> FALSE, calls |-> Operate("email", page.email, "send_keys")]
    ELSE [raised |-> FALSE,
          calls |-> Operate("email", page.email, "send_keys")
                        \o Operate("text", page.text, "send_keys")]

\* automation_engine.py:112-121
submit_form(page) ==
    [raised |-> FALSE, calls |-> Operate("submit", page.submit, "click")]

\* What a caller of participate_in_giveaway can tell of a call that ended
\* as r, the browser's calls apart: whether it raised, its value, the URL.
Seen(r) == [raised |-> r.raised, value |-> r.value, url |-> r.url]

\* automation_engine.py:42-75 without the test of lines 51-53: the call
\* goes on as if there were a driver.
participate_in_giveaway_undriven(drv, email_data, nav, page) ==
    LET giveaway_url == extract_link(get(email_data, "body", <<>>))
        went == <<<<"get", giveaway_url>>>>
        fill == fill_form(page)
        submit == submit_form(page)
    IN  IF giveaway_url = "none"
        THEN [raised |-> FALSE, value |-> FALSE, url |-> "none", calls |-> <<>>]
        ELSE IF nav = "raise"
        THEN [raised |-> FALSE, value |-> FALSE, url |-> giveaway_url, calls |-> went]
        ELSE [raised |-> FALSE, value |-> TRUE, url |-> giveaway_url,
              calls |-> went \o fill.calls \o submit.calls]

\* automation_engine.py:42-75 without the test of line 58: the browser is
\* sent to whatever _extract_link returned.
participate_in_giveaway_unchecked(drv, email_data, nav, page) ==
    LET giveaway_url == extract_link(get(email_data, "body", <<>>))
        went == <<<<"get", giveaway_url>>>>
        fill == fill_form(page)
        submit == submit_form(page)
    IN  IF ~drv
        THEN [raised |-> FALSE, value |-> FALSE, url |-> "none", calls |-> <<>>]
        ELSE IF nav = "raise"
        THEN [raised |-> FALSE, value |-> FALSE, url |-> giveaway_url, calls |-> went]
        ELSE [raised |-> FALSE, value |-> TRUE, url |-> giveaway_url, 
              calls |-> went \o fill.calls \o submit.calls]

\* automation_engine.py:42-75; nav = what driver.get(url) does ("ok" or
\* "raise"), page = what the page does with the controls. calls are the
\* calls made on the browser, in order. An error escaping a step inside the
\* try ends the call with False (automation_engine.py:73-75).
participate_in_giveaway(drv, email_data, nav, page) ==
    LET giveaway_url == extract_link(get(email_data, "body", <<>>))
        went == <<<<"get", giveaway_url>>>>
        fill == fill_form(page)
        submit == submit_form(page)
    IN  IF ~drv
        THEN [raised |-> FALSE, value |-> FALSE, url |-> "none", calls |-> <<>>]
        ELSE IF giveaway_url = "none"
        THEN [raised |-> FALSE, value |-> FALSE, url |-> "none", calls |-> <<>>]
        ELSE IF nav = "raise"
        THEN [raised |-> FALSE, value |-> FALSE, url |-> giveaway_url, calls |-> went]
        ELSE IF fill.raised
        THEN [raised |-> FALSE, value |-> FALSE, url |-> giveaway_url, 
              calls |-> went \o fill.calls]
        ELSE IF submit.raised
        THEN [raised |-> FALSE, value |-> FALSE, url |-> giveaway_url, 
              calls |-> went \o fill.calls \o submit.calls]
        ELSE [raised |-> FALSE, value |-> TRUE, url |-> giveaway_url, 
              calls |-> went \o fill.calls \o submit.calls]

\* The ways a call of participate_in_giveaway for message m can end for its
\* caller, over everything the page may do.
Observable ==
    [drv \in BOOLEAN, m \in Mails, nav \in {"ok", "raise"} |->
        { Seen(participate_in_giveaway(drv, m, nav, page)) : page \in Pages }]

\* ------------------------------------------------------------ orchestrator
\* main.py:63 with >= in place of >.
Gate_at_least(prediction, confidence) == prediction /\ confidence >= Threshold

\* main.py:63  if prediction and confidence > 0.85
Gate(prediction, confidence) == prediction /\ confidence > Threshold

Idle == cyc.pc \in {"idle", "returned"}
InProgress == ~Idle

NoCycle ==
    [pc |-> "idle", owner |-> "none", batch |-> <<>>, i |-> 1,
     listing |-> "none", result |-> "none", after |-> "none", faults |-> 0]

\* Entry of process_emails that goes on with what the execution before it
\* left, when there was one, in place of fetching.
Enter_cached(owner) ==
    /\ cyc' = [cyc EXCEPT !.pc = IF cyc.pc = "returned" THEN "loop" ELSE "fetch",
                          !.owner = owner, !.batch = <<>>, !.i = 1,
                          !.listing = "none", !.faults = 0]
    /\ log' = <<>>

\* Entry of process_emails (main.py:36-39) on behalf of owner. The object
\* keeps nothing of the execution before this one: result tells how that
\* one ended until this one has fetched, and after (set by Return) whether
\* that one handed Giveaway to the form actor.
Enter(owner) ==
    /\ cyc' = [cyc EXCEPT !.pc = "fetch", !.owner = owner, !.batch = <<>>, !.i = 1,
                          !.listing = "none", !.faults = 0]
    /\ log' = <<>>

\* main.py:75-76 without the handler: the error leaves process_emails.
OnCycleError_propagate == "raised"

\* main.py:75-76: the error is logged as critical and process_emails returns.
OnCycleError == "critical"

\* main.py:41-46, and 75-76 when fetch_emails raises. The listing is asked
\* for unread messages only (main.py:44, email_handler.py:63-64).
Fetch ==
    /\ cyc.pc = "fetch"
    /\ \E lr \in ListResults : \E parsed \in SUBSET (1..Len(lr.messages)) :
         /\ \A j \in 1..Len(lr.messages) : lr.messages[j] \in unread
         /\ LET r == fetch_emails(lr, parsed)
            IN  IF r.raised
                THEN /\ cyc' = [cyc EXCEPT !.pc = "exit", !.listing = lr.kind,
                                           !.result = OnCycleError]
                     /\ log' = log \o <<<<"fetch", 0>>, <<"fetch_raised", 0>>,
                                        <<"critical", 0>>>>
                ELSE /\ cyc' = [cyc EXCEPT !.pc = "loop", !.listing = lr.kind,
                                           !.batch = r.value, !.result = "none"]
                     /\ log' = Append(log, <<"fetch", 0>>)
    /\ UNCHANGED <<unread, proc, predictor, driver, sched, caller, api>>

\* A call on a collaborator ends as the collaborator's code ends it, or in
\* an exception escaping it: the case main.py:69-71 is there to handle.
Escapes(fault, r) == fault \/ r.raised

\* The escaping exceptions a call may still end in, within MaxFaults.
Faults == IF cyc.faults < MaxFaults THEN BOOLEAN ELSE {FALSE}

\* main.py:69-71 with the loop going back to the message before the failed
\* one.
AfterError_back(i, n) == IF i > 1 THEN i - 1 ELSE i + 1

\* main.py:69-71 with the failed message processed again.
AfterError_retry(i, n) == i

\* main.py:69-71 with the loop left (break) in place of continue.
AfterError_break(i, n) == n + 1

\* main.py:69-71: the index the loop goes on with after a failed message.
AfterError(i, n) == i + 1

\* main.py:48-67 for message i up to the gate, and 69-71.
Classify ==
    /\ cyc.pc = "loop"
    /\ cyc.i <= Len(cyc.batch)
    /\ \E f1 \in Faults, f2 \in Faults :
         LET i == cyc.i
             email_text == extract_email_text(cyc.batch[i])
             prediction == predict(predictor, email_text)
             confidence == get_confidence_score(predictor, email_text)
         IN  IF Escapes(f1, prediction)
             THEN /\ cyc' = [cyc EXCEPT !.i = AfterError(i, Len(cyc.batch)),
                                        !.faults = cyc.faults + (IF f1 THEN 1 ELSE 0)]
                  /\ log' = log \o <<<<"predict", i>>, <<"predict_raised", i>>,
                                     <<"fail", i>>>>
             ELSE IF Escapes(f2, confidence)
             THEN /\ cyc' = [cyc EXCEPT !.i = AfterError(i, Len(cyc.batch)),
                                        !.faults = cyc.faults + (IF f2 THEN 1 ELSE 0)]
                  /\ log' = log \o <<<<"predict", i>>, <<"confidence", i>>,
                                     <<"confidence_raised", i>>, <<"fail", i>>>>
             ELSE IF Gate(prediction.value, confidence.value)
             THEN /\ cyc' = [cyc EXCEPT !.pc = "act"]
                  /\ log' = log \o <<<<"predict", i>>, <<"confidence", i>>,
                                     <<"attempt", i>>>>
             ELSE /\ cyc' = [cyc EXCEPT !.i = i + 1]
                  /\ log' = log \o <<<<"predict", i>>, <<"confidence", i>>,
                                     <<"skip", i>>>>
    /\ UNCHANGED <<unread, proc, predictor, driver, sched, caller, api>>

\* main.py:65 with a failure of participate_in_giveaway, returned or raised,
\* ending the cycle as a cycle-level failure.
Act_escalating ==
    /\ cyc.pc = "act"
    /\ \E f \in Faults, nav \in {"ok", "raise"} :
       \E r \in Observable[driver, cyc.batch[cyc.i], nav] :
         LET i == cyc.i
             went == IF ~f /\ r.url # "none" THEN <<<<"navigate", i>>>> ELSE <<>>
         IN  IF Escapes(f, r) \/ ~r.value
             THEN /\ cyc' = [cyc EXCEPT !.pc = "exit", !.result = "critical",
                               !.faults = cyc.faults + (IF f THEN 1 ELSE 0)]
                  /\ log' = log \o <<<<"participate", i>>>> \o went
                                \o (IF Escapes(f, r)
                                    THEN <<<<"participate_raised", i>>, <<"fail", i>>>>
                                    ELSE <<<<"declined", i>>>>)
                                \o <<<<"critical", 0>>>>
             ELSE /\ cyc' = [cyc EXCEPT !.pc = "loop", !.i = i + 1]
                  /\ log' = log \o <<<<"participate", i>>>> \o went \o <<<<"acted", i>>>>
    /\ UNCHANGED <<unread, proc, predictor, driver, sched, caller, api>>

\* main.py:65 for message i, and 69-71. The value participate_in_giveaway
\* returns is dropped by the caller; the log keeps it as "acted"/"declined".
Act ==
    /\ cyc.pc = "act"
    /\ \E f \in Faults, nav \in {"ok", "raise"} :
       \E r \in Observable[driver, cyc.batch[cyc.i], nav] :
         LET i == cyc.i
             went == IF ~f /\ r.url # "none" THEN <<<<"navigate", i>>>> ELSE <<>>
             ended == IF Escapes(f, r)
                      THEN <<<<"participate_raised", i>>, <<"fail", i>>>>
                      ELSE IF r.value THEN <<<<"acted", i>>>>
                      ELSE <<<<"declined", i>>>>
         IN  /\ cyc' = [cyc EXCEPT !.pc = "loop",
                           !.i = IF Escapes(f, r) THEN AfterError(i, Len(cyc.batch))
                                 ELSE i + 1,
                           !.faults = cyc.faults + (IF f THEN 1 ELSE 0)]
             /\ log' = log \o <<<<"participate", i>>>> \o went \o ended
    /\ UNCHANGED <<unread, proc, predictor, driver, sched, caller, api>>

\* main.py:73 with every message of the batch marked as read once the loop
\* is over.
RECURSIVE MarkAll(_, _)
MarkAll(u, msgs) ==
    IF msgs = <<>> THEN u
    ELSE MarkAll(mark_as_read(u, Head(msgs), TRUE).unread, Tail(msgs))

EndLoop_marking ==
    /\ cyc.pc = "loop"
    /\ cyc.i > Len(cyc.batch)
    /\ cyc' = [cyc EXCEPT !.pc = "exit", !.result = "completed"]
    /\ log' = Append(log, <<"completed", 0>>)
    /\ unread' = MarkAll(unread, cyc.batch)
    /\ UNCHANGED <<proc, predictor, driver, sched, caller, api>>

\* main.py:73 with the loop free to end one message early.
EndLoop_early ==
    /\ cyc.pc = "loop"
    /\ cyc.i >= Len(cyc.batch)
    /\ cyc' = [cyc EXCEPT !.pc = "exit", !.result = "completed"]
    /\ log' = Append(log, <<"completed", 0>>)
    /\ UNCHANGED <<unread, proc, predictor, driver, sched, caller, api>>

\* main.py:73: the loop is over.
EndLoop ==
    /\ cyc.pc = "loop"
    /\ cyc.i > Len(cyc.batch)
    /\ cyc' = [cyc EXCEPT !.pc = "exit", !.result = "completed"]
    /\ log' = Append(log, <<"completed", 0>>)
    /\ UNCHANGED <<unread, proc, predictor, driver, sched, caller, api>>

\* ------------------------------------------------------------- the process
\* No main() is running: the system's API is used by a client of its own.
NoProc == [pc |-> "client", mode |-> "none", code |-> "none", fatal |-> FALSE,
           cause |-> "none", released |-> "no"]

\* The call op on the system may be made now: by a client at any time; by
\* main() where its text makes it. main.py:153-155 start_scheduler in auto
\* mode; main.py:160-164 stop_scheduler when the interrupt arrives in the
\* sleep loop; main.py:166-168 run_once in once mode.
Permits(op) ==
    \/ proc.pc = "client"
    \/ /\ proc.pc = "top"
       /\ CASE op = "start_scheduler" -> proc.mode = "auto" /\ caller.op = "none"
            [] op = "stop_scheduler" -> /\ proc.mode = "auto"
                                        /\ caller.op = "start_scheduler"
                                        /\ caller.error = "none"
            [] op = "run_once" -> proc.mode = "once" /\ caller.op = "none"
            [] OTHER -> FALSE

\* ---------------------------------------------------------------- scheduler
\* The scheduler's instance check with no limit on running instances.
CanSubmit_unlimited(instances) == TRUE

\* main.py:84-90: the job is added with the default max_instances, so a run
\* is submitted only while fewer than MaxInstances runs are in progress.
CanSubmit(instances) == instances < MaxInstances

NoCall == [pc |-> "ready", op |-> "none", error |-> "none", mid |-> FALSE]

\* main.py:78-92 with add_job replacing nothing and refusing nothing: every
\* call stores one more job.
start_scheduler_stacking ==
    /\ caller.pc = "ready"
    /\ Permits("start_scheduler")
    /\ caller' = [pc |-> "ready", op |-> "start_scheduler", error |-> "none",
                  mid |-> FALSE]
    /\ sched' = [sched EXCEPT !.state = "running", !.jobs = sched.jobs + 1]
    /\ UNCHANGED <<unread, proc, predictor, driver, cyc, log, api>>

\* main.py:78-92. add_job on a running scheduler that holds the id raises
\* ConflictingIdError; otherwise the job is stored and the scheduler starts.
\* A pool shut down by an earlier stop stays shut down.
start_scheduler ==
    /\ caller.pc = "ready"
    /\ Permits("start_scheduler")
    /\ IF sched.state = "running"
       THEN /\ caller' = [pc |-> "ready", op |-> "start_scheduler",
                          error |-> "ConflictingIdError", mid |-> FALSE]
            /\ UNCHANGED sched
       ELSE /\ caller' = [pc |-> "ready", op |-> "start_scheduler", error |-> "none",
                          mid |-> FALSE]
            /\ sched' = [sched EXCEPT !.state = "running", !.jobs = sched.jobs + 1]
    /\ UNCHANGED <<unread, proc, predictor, driver, cyc, log, api>>

\* Messages of the batch are still to be processed.
MidCycle == cyc.pc \in {"loop", "act"} /\ cyc.i <= Len(cyc.batch)

\* main.py:94-97 with a shutdown that cancels the run in progress.
stop_scheduler_cancelling ==
    /\ caller.pc = "ready"
    /\ Permits("stop_scheduler")
    /\ sched.state = "running"
    /\ caller' = [pc |-> "ready", op |-> "stop_scheduler", error |-> "none",
                  mid |-> MidCycle]
    /\ sched' = [sched EXCEPT !.state = "stopped", !.pool = FALSE, !.jobs = 0,
                              !.instances = 0]
    /\ cyc' = [cyc EXCEPT !.pc = "returned", !.batch = <<>>, !.i = 1,
                          !.listing = "none", !.faults = 0]
    /\ log' = <<>>
    /\ UNCHANGED <<unread, proc, predictor, driver, api>>

\* main.py:94-97, the call: shutdown() of a scheduler that is not running
\* raises SchedulerNotRunningError; of a running one, it ends the scheduling
\* and then waits for the run in progress. mid notes whether messages of a
\* batch were still to be processed when the call came.
stop_scheduler ==
    /\ caller.pc = "ready"
    /\ Permits("stop_scheduler")
    /\ IF sched.state = "stopped"
       THEN /\ caller' = [pc |-> "ready", op |-> "stop_scheduler",
                          error |-> "SchedulerNotRunningError", mid |-> FALSE]
            /\ UNCHANGED sched
       ELSE /\ caller' = [pc |-> "stopping", op |-> "stop_scheduler", error |-> "none",
                          mid |-> MidCycle]
            /\ sched' = [sched EXCEPT !.state = "stopped", !.pool = FALSE]
    /\ UNCHANGED <<unread, proc, predictor, driver, cyc, log, api>>

\* main.py:96-97, the return: shutdown(wait=True) has waited for the run in
\* progress, the job store is emptied, "Scheduler stopped" is logged.
stop_returns ==
    /\ caller.pc = "stopping"
    /\ sched.instances = 0
    /\ caller' = [caller EXCEPT !.pc = "ready", !.mid = FALSE]
    /\ sched' = [sched EXCEPT !.jobs = 0, !.missed = FALSE]
    /\ UNCHANGED <<unread, proc, predictor, driver, cyc, log, api>>

\* main.py:84-90 with a trigger that fires once: the job is gone after its
\* first run.
Trigger_once ==
    /\ sched.state = "running"
    /\ sched.jobs > 0
    /\ IF sched.pool /\ sched.instances < MaxInstances
       THEN /\ sched' = [sched EXCEPT !.instances = sched.instances + 1,
                                      !.missed = FALSE, !.jobs = 0]
            /\ cyc' = [cyc EXCEPT !.pc = "fetch", !.owner = "job", !.batch = <<>>,
                          !.i = 1, !.listing = "none",
                          !.faults = 0]
            /\ log' = <<>>
       ELSE /\ sched' = [sched EXCEPT !.missed = TRUE]
            /\ UNCHANGED <<cyc, log>>
    /\ UNCHANGED <<unread, proc, predictor, driver, caller, api>>

\* The interval of the job registered at main.py:84-90 elapses: the
\* scheduler thread submits a run of process_emails, or skips this run when
\* the instance limit is reached or its pool no longer takes work.
Trigger ==
    /\ sched.state = "running"
    /\ sched.jobs > 0
    /\ IF sched.pool /\ CanSubmit(sched.instances)
       THEN /\ sched' = [sched EXCEPT !.instances = sched.instances + 1,
                                      !.missed = FALSE]
            /\ Enter("job")
       ELSE /\ sched' = [sched EXCEPT !.missed = TRUE]
            /\ UNCHANGED <<cyc, log>>
    /\ UNCHANGED <<unread, proc, predictor, driver, caller, api>>

\* main.py:99-101, the call. run_once and the scheduler are the two
\* alternative modes (main.py:153-169): run_once is called while no
\* scheduler runs.
run_once ==
    /\ caller.pc = "ready"
    /\ Permits("run_once")
    /\ sched.state = "stopped"
    /\ Idle
    /\ caller' = [pc |-> "run_once", op |-> "run_once", error |-> "none", mid |-> FALSE]
    /\ Enter("caller")
    /\ UNCHANGED <<unread, proc, predictor, driver, sched, api>>

\* Whether the execution that ends has handed the message Giveaway to
\* participate_in_giveaway.
EndedAs ==
    IF \E j \in 1..Len(cyc.batch) :
           /\ cyc.batch[j] = Giveaway
           /\ \E k \in DOMAIN log : log[k] = <<"participate", j>>
    THEN "acted"
    ELSE "none"

\* process_emails returns to what called it: run_once (main.py:101) or the
\* scheduler's worker, which then counts one running instance less. The
\* local emails (main.py:42) ends with the call, and with it the trace of
\* this execution.
Return ==
    /\ cyc.pc = "exit"
    /\ cyc' = [cyc EXCEPT !.pc = "returned", !.batch = <<>>, !.i = 1,
                          !.listing = "none", !.faults = 0, !.after = EndedAs]
    /\ log' = <<>>
    /\ IF cyc.owner = "job"
       THEN /\ sched' = [sched EXCEPT !.instances = sched.instances - 1]
            /\ UNCHANGED caller
       ELSE /\ caller' = [caller EXCEPT !.pc = "ready",
                             !.error = IF cyc.result = "raised" THEN "Exception"
                                       ELSE "none"]
            /\ UNCHANGED sched
    /\ UNCHANGED <<unread, proc, predictor, driver, api>>

\* ------------------------------------------------------------ specification
NoApi == [op |-> "none", arg |-> <<>>, ret |-> Returned(FALSE)]

\* ModelPredictor.__init__ (model_predictor.py:23-31): model and tokenizer
\* are both loaded or both None. AutomationEngine._init_driver
\* (automation_engine.py:28-40): a driver or None. main.py:33: a scheduler
\* that is not started.
Init ==
    /\ unread = Mails
    /\ proc = NoProc
    /\ predictor \in { [model |-> b, tokenizer |-> b] : b \in BOOLEAN }
    /\ driver \in BOOLEAN
    /\ sched = [state |-> "stopped", jobs |-> 0, instances |-> 0, pool |-> TRUE,
                missed |-> FALSE]
    /\ caller = NoCall
    /\ cyc = NoCycle
    /\ log = <<>>
    /\ api = NoApi

Next ==
    \/ start_scheduler
    \/ stop_scheduler
    \/ stop_returns
    \/ run_once
    \/ Trigger
    \/ Fetch
    \/ Classify
    \/ Act
    \/ EndLoop
    \/ Return

Spec == Init /\ [][Next]_vars

\* The scheduler thread fires the job at every interval while it runs, and
\* the thread executing process_emails keeps taking steps.
FairSpec ==
    /\ Spec
    /\ WF_vars(Trigger)
    /\ WF_vars(Fetch) /\ WF_vars(Classify) /\ WF_vars(Act)
    /\ WF_vars(EndLoop) /\ WF_vars(Return)

\* ------------------------------------------------------------------ main()
\* main.py:147-150: the arguments are parsed and the system is constructed,
\* outside the try of line 152. EmailHandler (main.py:30) authenticates in
\* its constructor and does not catch what that raises
\* (email_handler.py:24-48); it is constructed first, so when it raises no
\* AutomationEngine exists. The error leaves main().
main_construct ==
    /\ proc.pc = "start"
    /\ \/ /\ proc' = [proc EXCEPT !.pc = "top"]
          /\ UNCHANGED driver
       \/ /\ proc' = [proc EXCEPT !.pc = "crashed", !.code = "raised",
                                  !.cause = "startup"]
          /\ driver' = FALSE
    /\ UNCHANGED <<unread, predictor, sched, caller, cyc, log, api>>

\* main.py:155: start_scheduler raises inside the try, add_job rejecting the
\* interval it is given (main.py:84-90): nothing is scheduled.
main_start_fails ==
    /\ proc.pc = "top"
    /\ proc.mode = "auto"
    /\ caller = NoCall
    /\ caller' = [pc |-> "ready", op |-> "start_scheduler", error |-> "Exception",
                  mid |-> FALSE]
    /\ UNCHANGED <<unread, proc, predictor, driver, sched, cyc, log, api>>

\* main.py:165, 169, 175: the mode's last call has returned and main returns
\* 0; main.py:171-173: a call raised, the error is logged as fatal and main
\* returns 1.
main_return ==
    /\ proc.pc = "top"
    /\ caller.pc = "ready"
    /\ \/ caller.op \in {"run_once", "stop_scheduler"}
       \/ caller.op = "start_scheduler" /\ caller.error # "none"
    /\ proc' = [proc EXCEPT !.pc = "exited",
                            !.code = IF caller.error = "none" THEN 0 ELSE 1,
                            !.fatal = caller.error # "none",
                            !.cause = IF caller.error = "none" THEN "none"
                                      ELSE "toplevel"]
    /\ UNCHANGED <<unread, predictor, driver, sched, caller, cyc, log, api>>

\* automation_engine.py:129-131: main() holds the only reference to the
\* system; once it has returned the engine may be finalized, and __del__
\* then calls close. When this happens, and whether, is the runtime's choice.
finalize ==
    /\ proc.pc = "exited"
    /\ driver
    /\ proc.released = "no"
    /\ proc' = [proc EXCEPT !.released = "finalizer"]
    /\ UNCHANGED <<unread, predictor, driver, sched, caller, cyc, log, api>>

\* main.py:178-179  exit(main()): the value main returned, or 1 when an
\* exception left it.
ExitStatus == IF proc.code = "raised" THEN 1 ELSE proc.code

\* A process started in one of the two modes (main.py:123-128); the rest as
\* Init, standing for what the constructors of main.py:30-33 produce.
MainInit ==
    /\ unread = Mails
    /\ proc \in { [pc |-> "start", mode |-> m, code |-> "none", fatal |-> FALSE,
                   cause |-> "none", released |-> "no"] : m \in {"auto", "once"} }
    /\ predictor \in { [model |-> b, tokenizer |-> b] : b \in BOOLEAN }
    /\ driver \in BOOLEAN
    /\ sched = [state |-> "stopped", jobs |-> 0, instances |-> 0, pool |-> TRUE,
                missed |-> FALSE]
    /\ caller = NoCall
    /\ cyc = NoCycle
    /\ log = <<>>
    /\ api = NoApi

MainNext ==
    \/ main_construct
    \/ main_start_fails
    \/ main_return
    \/ finalize
    \/ start_scheduler
    \/ stop_scheduler
    \/ stop_returns
    \/ run_once
    \/ Trigger
    \/ Fetch
    \/ Classify
    \/ Act
    \/ EndLoop
    \/ Return

MainSpec == MainInit /\ [][MainNext]_vars

\* ------------------------------------------------- the classifier on its own
\* A ModelPredictor whose attributes a client sets (tests/test_models.py:46-48).
PredictorInit ==
    /\ unread = Mails
    /\ proc = NoProc
    /\ predictor \in [model : BOOLEAN, tokenizer : BOOLEAN]
    /\ driver = FALSE
    /\ sched = [state |-> "stopped", jobs |-> 0, instances |-> 0, pool |-> TRUE,
                missed |-> FALSE]
    /\ caller = NoCall
    /\ cyc = NoCycle
    /\ log = <<>>
    /\ api = NoApi

call_predict ==
    /\ \E t \in Texts :
         api' = [op |-> "predict", arg |-> <<t>>, ret |-> predict(predictor, t)]
    /\ UNCHANGED <<unread, proc, predictor, driver, sched, caller, cyc, log>>

call_get_confidence_score ==
    /\ \E t \in Texts :
         api' = [op |-> "get_confidence_score", arg |-> <<t>>,
                 ret |-> get_confidence_score(predictor, t)]
    /\ UNCHANGED <<unread, proc, predictor, driver, sched, caller, cyc, log>>

call_predict_batch ==
    /\ \E ts \in TextLists :
         api' = [op |-> "predict_batch", arg |-> ts, ret |-> predict_batch(predictor, ts)]
    /\ UNCHANGED <<unread, proc, predictor, driver, sched, caller, cyc, log>>

PredictorNext ==
    \/ call_predict
    \/ call_get_confidence_score
    \/ call_predict_batch

PredictorSpec == PredictorInit /\ [][PredictorNext]_vars

\* ------------------------------------------------ the form actor on its own
\* An AutomationEngine after construction (automation_engine.py:17-40), and
\* the call a client is about to make on it: the message it hands over and
\* what the browser will do (env).
EngineInit ==
    /\ unread = Mails
    /\ proc = NoProc
    /\ predictor = [model |-> FALSE, tokenizer |-> FALSE]
    /\ driver \in BOOLEAN
    /\ sched = [state |-> "stopped", jobs |-> 0, instances |-> 0, pool |-> TRUE,
                missed |-> FALSE]
    /\ caller = NoCall
    /\ cyc = NoCycle
    /\ log = <<>>
    /\ \E e \in EmailData, nav \in {"ok", "raise"}, page \in Pages :
         api = [op |-> "none", arg |-> <<e>>, ret |-> Returned(FALSE),
                env |-> [nav |-> nav, page |-> page]]

call_extract_link ==
    /\ api.op = "none"
    /\ api' = [api EXCEPT !.op = "extract_link",
                          !.arg = <<get(api.arg[1], "body", <<>>)>>,
                          !.ret = Returned(extract_link(get(api.arg[1], "body", <<>>)))]
    /\ UNCHANGED <<unread, proc, predictor, driver, sched, caller, cyc, log>>

call_participate_in_giveaway ==
    /\ api.op = "none"
    /\ api' = [api EXCEPT !.op = "participate_in_giveaway",
                          !.ret = participate_in_giveaway(driver, api.arg[1],
                                                          api.env.nav, api.env.page)]
    /\ UNCHANGED <<unread, proc, predictor, driver, sched, caller, cyc, log>>

EngineNext ==
    \/ call_extract_link
    \/ call_participate_in_giveaway

EngineSpec == EngineInit /\ [][EngineNext]_vars

\* ==================================================================== claims
Has(e, j) == \E k \in DOMAIN log : log[k] = <<e, j>>

IsPrefix(s, t) == Len(s) <= Len(t) /\ \A k \in 1..Len(s) : s[k] = t[k]

\* The label and the confidence the classifier returns for message j.
LabelOf(j) == predict(predictor, extract_email_text(cyc.batch[j])).value
ConfidenceOf(j) == get_confidence_score(predictor, extract_email_text(cyc.batch[j])).value

\* Both classifier calls for message j have returned.
Classified(j) ==
    /\ Has("confidence", j)
    /\ ~Has("predict_raised", j)
    /\ ~Has("confidence_raised", j)

ClassRaised(j) == Has("predict_raised", j) \/ Has("confidence_raised", j)
AnyRaised(j) == ClassRaised(j) \/ Has("participate_raised", j)
Outcomes(j) == { e \in {"skip", "acted", "declined", "fail"} : Has(e, j) }

(* C1: for every message of the batch in process, participate_in_giveaway  *)
(* is called (or, the gate just passed, is the next thing to happen) if    *)
(* and only if the classifier returned label TRUE and a confidence above   *)
(* 0.85; a confidence of exactly 0.85 does not qualify, and a message that *)
(* does not qualify sees no Form Actor call.                               *)
C1_GateIffLabelAndAbove85 ==
    \A j \in 1..Len(cyc.batch) :
        LET toCall == cyc.pc = "act" /\ cyc.i = j
        IN  /\ (Has("participate", j) \/ toCall)
                => (Classified(j) /\ LabelOf(j) = TRUE /\ ConfidenceOf(j) > 85)
            /\ (Classified(j) /\ LabelOf(j) = TRUE /\ ConfidenceOf(j) > 85)
                => (Has("participate", j) \/ toCall)

\* One cycle acts on a qualifying message and skips one scored exactly 0.85.
C1_Witness ==
    \E j, k \in 1..Len(cyc.batch) :
        /\ Has("participate", j)
        /\ Has("skip", k) /\ LabelOf(k) = TRUE /\ ConfidenceOf(k) = 85

\* Message j ended as a message whose processing raised nothing ends.
AsUnfailed(j) ==
    /\ Has("predict", j) /\ Has("confidence", j)
    /\ IF LabelOf(j) = TRUE /\ ConfidenceOf(j) > 85
       THEN Has("participate", j) /\ Outcomes(j) \in {{"acted"}, {"declined"}}
       ELSE ~Has("participate", j) /\ Outcomes(j) = {"skip"}

(* C2: when a cycle over a fetched batch ends and the classification of    *)
(* exactly one message i raised (nothing else did), the cycle completed,   *)
(* message i is the only one recorded as failed, and every other message,  *)
(* before and after i, was classified, gated and acted upon as a message   *)
(* of an undisturbed cycle is.                                             *)
C2_OneFailureIsIsolated ==
    (cyc.pc = "exit" /\ cyc.listing = "ok") =>
        \A i \in 1..Len(cyc.batch) :
            (ClassRaised(i) /\ \A j \in 1..Len(cyc.batch) : j # i => ~AnyRaised(j))
            => /\ cyc.result = "completed"
               /\ Outcomes(i) = {"fail"}
               /\ \A j \in 1..Len(cyc.batch) : j # i => AsUnfailed(j)

\* A cycle of three messages ends; the second failed in classification, the
\* first was acted upon and the third, which qualifies too, was handed to
\* participate_in_giveaway.
C2_Witness ==
    /\ cyc.pc = "exit"
    /\ Len(cyc.batch) = 3
    /\ ClassRaised(2)
    /\ Has("acted", 1) /\ Has("participate", 3)

(* C3: process_emails never ends in an exception, whatever fetch_emails,   *)
(* the classifier and participate_in_giveaway do; and when fetching the    *)
(* batch failed the cycle holds no call of the classifier and no call of   *)
(* participate_in_giveaway.                                                *)
C3_CycleNeverRaises ==
    /\ cyc.result # "raised"
    /\ caller.error # "Exception"
    /\ cyc.pc \in {"exit", "returned"} => cyc.result \in {"completed", "critical"}
    /\ cyc.listing \in {"http_error", "other_error"}
        => \A k \in DOMAIN log :
               log[k][1] \notin {"predict", "confidence", "participate", "navigate"}

\* run_once has returned normally from a cycle whose fetch raised.
C3_Witness ==
    /\ cyc.pc = "returned" /\ cyc.owner = "caller" /\ cyc.result = "critical"
    /\ caller.pc = "ready" /\ caller.op = "run_once" /\ caller.error = "none"

(* C4: after start_scheduler at most one execution of process_emails for   *)
(* the recurring job is in progress: while one runs, an elapsed interval   *)
(* starts no second one.                                                   *)
C4_NoOverlappingCycles ==
    /\ sched.instances <= 1
    /\ (cyc.owner = "job" /\ InProgress) => sched.instances = 1

\* The interval elapsed while a cycle was in progress, and the run was skipped.
C4_Witness ==
    /\ sched.instances = 1 /\ sched.missed
    /\ cyc.owner = "job" /\ cyc.pc = "act"

(* C5: stop_scheduler is idempotent: called when the scheduler was never   *)
(* started, or again after a stop, it raises no error.                     *)
C5_StopIsIdempotent ==
    caller.op = "stop_scheduler" => caller.error = "none"

JobBegins == cyc'.owner = "job" /\ cyc'.pc = "fetch" /\ cyc.pc # "fetch"

StopCalled == ~sched.pool

\* The cycle has ended with an outcome for every message of its batch.
Finished ==
    /\ cyc.pc = "exit"
    /\ \/ cyc.result = "critical"
       \/ /\ cyc.result = "completed"
          /\ \A j \in 1..Len(cyc.batch) : Outcomes(j) # {}

(* C6: a cycle in progress when stop_scheduler is called is not cancelled  *)
(* (its trace only grows, its batch stays) and runs to completion, with an *)
(* outcome for every remaining message; stop_scheduler returns only then;  *)
(* and while the scheduler is stopped no new cycle of the job begins.      *)
C6_StopLetsCycleFinish ==
    /\ [][(InProgress /\ cyc.owner = "job" /\ sched'.state = "stopped"
            /\ cyc.pc # "exit")
          => /\ cyc'.pc \notin {"idle", "returned"}
             /\ cyc'.owner = "job"
             /\ IsPrefix(log, log')
             /\ (cyc.pc # "fetch" => cyc'.batch = cyc.batch)]_vars
    /\ [][(caller.pc = "stopping" /\ caller'.pc = "ready") => Idle]_vars
    /\ [][sched.state = "stopped" => ~JobBegins]_vars
    /\ (InProgress /\ cyc.owner = "job" /\ caller.pc = "stopping") ~> Finished

\* stop_scheduler came while messages were still to be processed and is
\* waiting; the cycle has completed with all three messages processed.
C6_Witness ==
    /\ caller.pc = "stopping" /\ caller.mid
    /\ cyc.pc = "exit" /\ cyc.owner = "job" /\ cyc.result = "completed"
    /\ Len(cyc.batch) = 3
    /\ \A j \in 1..3 : Outcomes(j) # {}

(* C7: a cycle of the job that ended in a cycle-level failure does not     *)
(* disable the job: unless stop_scheduler is called, a later cycle of the  *)
(* job begins.                                                             *)
C7_FailedCycleKeepsJob ==
    (cyc.pc = "returned" /\ cyc.owner = "job" /\ cyc.result = "critical")
        ~> ((cyc.owner = "job" /\ cyc.pc = "fetch") \/ StopCalled)

\* A cycle of the job runs after one that ended in a cycle-level failure,
\* stop_scheduler not having been called.
C7_Witness ==
    /\ cyc.owner = "job" /\ cyc.pc = "fetch" /\ cyc.result = "critical"
    /\ ~StopCalled

Unavailable == ~predictor.model \/ ~predictor.tokenizer
Failing(text) == tokenize(text) = "raise" \/ model_predict(text).kind = "raise"

(* C8: predict and get_confidence_score never raise, and they return False *)
(* and 0.0 whenever the model or the tokenizer is missing or preprocessing *)
(* or inference raises, for the empty text as for any other.               *)
C8_ClassifierFailsClosed ==
    /\ api.op = "predict"
        => /\ ~api.ret.raised
           /\ (Unavailable \/ Failing(api.arg[1])) => api.ret.value = FALSE
    /\ api.op = "get_confidence_score"
        => /\ ~api.ret.raised
           /\ (Unavailable \/ Failing(api.arg[1])) => api.ret.value = 0

\* predict has returned False for a text on which the loaded model raises.
C8_Witness ==
    /\ api.op = "predict"
    /\ ~Unavailable
    /\ model_predict(api.arg[1]).kind = "raise"
    /\ api.ret = Returned(FALSE)

(* C9: predict_batch returns, for every list of texts, the empty one       *)
(* included, a list of the same length whose j-th element is predict of    *)
(* the j-th text.                                                          *)
C9_BatchIsElementwise ==
    api.op = "predict_batch"
        => /\ ~api.ret.raised
           /\ Len(api.ret.value) = Len(api.arg)
           /\ \A j \in 1..Len(api.arg) :
                  api.ret.value[j] = predict(predictor, api.arg[j]).value

\* A batch of two texts got two different labels, in input order.
C9_Witness ==
    /\ api.op = "predict_batch"
    /\ Len(api.arg) = 2
    /\ api.ret.value = <<TRUE, FALSE>>

(* C10: fetch_emails never raises to process_emails: on any failure of the *)
(* listing call, whatever its kind, it returns an empty sequence.          *)
C10_FetchNeverRaises ==
    cyc.listing \in {"http_error", "other_error"}
        => /\ ~Has("fetch_raised", 0)
           /\ cyc.result # "critical"

\* The body of the message participate_in_giveaway was called with.
BodyOf(e) == get(e, "body", <<>>)
HasUrl(text) == \E k \in DOMAIN text : text[k] \in UrlTokens

(* C11: when the body holds no URL, or the message has no body,            *)
(* participate_in_giveaway returns False, raises nothing, and makes no     *)
(* call on the browser: no navigation, no lookup, no filling, no click.    *)
C11_NoUrlNoBrowserCall ==
    (api.op = "participate_in_giveaway" /\ ~HasUrl(BodyOf(api.arg[1])))
        => /\ api.ret.raised = FALSE
           /\ api.ret.value = FALSE
           /\ api.ret.calls = <<>>

\* With a working driver, a message without the body key was handed over
\* while the browser would have navigated and the page held every control.
C11_Witness ==
    /\ api.op = "participate_in_giveaway"
    /\ driver
    /\ "body" \notin DOMAIN api.arg[1]
    /\ api.env.nav = "ok"
    /\ api.env.page = [email |-> "ok", text |-> "ok", submit |-> "ok"]
    /\ api.ret.value = FALSE

\* k is the position of the leftmost URL of text.
Leftmost(text, k) ==
    /\ k \in DOMAIN text
    /\ text[k] \in UrlTokens
    /\ \A j \in 1..(k - 1) : text[j] \notin UrlTokens

(* C12: _extract_link returns the leftmost URL of the text, never a later  *)
(* one (for the example body, the first of its two URLs), and that URL is  *)
(* the one, and the only one, the browser is sent to.                      *)
C12_FirstUrlIsTaken ==
    /\ (api.op = "extract_link" /\ HasUrl(api.arg[1]))
        => \E k \in DOMAIN api.arg[1] :
               Leftmost(api.arg[1], k) /\ api.ret = Returned(api.arg[1][k])
    /\ (api.op = "extract_link" /\ api.arg[1] = ExampleBody)
        => api.ret = Returned("u1")
    /\ api.op = "participate_in_giveaway"
        => \A c \in DOMAIN api.ret.calls :
               api.ret.calls[c][1] = "get"
               => /\ c = 1
                  /\ \E k \in DOMAIN BodyOf(api.arg[1]) :
                         /\ Leftmost(BodyOf(api.arg[1]), k)
                         /\ api.ret.calls[c][2] = BodyOf(api.arg[1])[k]

\* The browser was sent to the first URL of the example body, which holds a
\* different URL further on.
C12_Witness ==
    /\ api.op = "participate_in_giveaway"
    /\ BodyOf(api.arg[1]) = ExampleBody
    /\ api.ret.calls # <<>>
    /\ api.ret.calls[1] = <<"get", "u1">>
    /\ api.ret.value = TRUE

(* C17: participate_in_giveaway returns True if and only if the driver is  *)
(* available, the body holds a URL and the navigation to it did not raise; *)
(* whatever the page does with the email field, the text field and the     *)
(* submit control (missing, or raising), the result is the same and        *)
(* nothing is raised to the caller.                                        *)
C17_TrueIffNavigated ==
    api.op = "participate_in_giveaway"
        => /\ api.ret.raised = FALSE
           /\ api.ret.value = (driver /\ HasUrl(BodyOf(api.arg[1])) /\ api.env.nav = "ok")

\* The call returned True on a page whose email field raised and whose
\* submit control is missing.
C17_Witness ==
    /\ api.op = "participate_in_giveaway"
    /\ api.env.page.email = "raise"
    /\ api.env.page.submit = "missing"
    /\ api.ret.value = TRUE
    /\ api.ret.calls = <<<<"get", "u2">>, <<"find", "email">>, <<"find", "submit">>>>

RunOnceCalled == caller.pc = "ready" /\ caller'.pc = "run_once"
RunOnceReturns == caller.pc = "run_once" /\ caller'.pc = "ready"
CallerCycleBegins == cyc'.owner = "caller" /\ cyc'.pc = "fetch" /\ cyc.pc # "fetch"
Fetches == Cardinality({ k \in DOMAIN log : log[k] = <<"fetch", 0>> })
NeverStarted == sched.state = "stopped" /\ sched.pool /\ sched.jobs = 0

(* C13: every call of run_once begins one cycle and no cycle of the caller *)
(* begins without one; a call is made only when no cycle is in progress    *)
(* (the one before has returned) and returns only when its own cycle       *)
(* does, so two calls in sequence are two cycles, one after the other; and *)
(* each cycle starts with no batch and calls fetch_emails exactly once     *)
(* before it processes anything.                                           *)
C13_RunOnceTwiceIsTwoCycles ==
    /\ [][RunOnceCalled <=> CallerCycleBegins]_vars
    /\ [][RunOnceCalled => (Idle /\ cyc'.batch = <<>> /\ log' = <<>>)]_vars
    /\ [][RunOnceReturns => (cyc.owner = "caller" /\ cyc.pc = "exit"
                             /\ cyc'.pc = "returned")]_vars
    /\ [](caller.pc = "run_once" => (InProgress /\ cyc.owner = "caller"))
    /\ []((cyc.owner = "caller" /\ cyc.pc = "fetch")
            => (Fetches = 0 /\ cyc.batch = <<>>))
    /\ []((cyc.owner = "caller" /\ cyc.pc \in {"loop", "act", "exit"})
            => Fetches = 1)

\* No scheduler was ever started; the second of two run_once calls is about
\* to return from a cycle that fetched three messages itself and completed,
\* the first call's cycle having acted on the message Giveaway.
C13_Witness ==
    /\ NeverStarted
    /\ caller.pc = "run_once"
    /\ cyc.owner = "caller" /\ cyc.after = "acted"
    /\ cyc.pc = "exit" /\ cyc.result = "completed"
    /\ Len(cyc.batch) = 3 /\ Fetches = 1

(* C14: main ends with exit code 0 when once mode completes and when auto  *)
(* mode is shut down by an interrupt; and on a fatal error, at startup as  *)
(* during top-level execution, main logs the failure and returns 1.        *)
C14_ExitCodes ==
    /\ (proc.pc = "exited" /\ proc.cause = "none") => proc.code = 0
    /\ proc.cause # "none"
        => (proc.pc = "exited" /\ proc.code = 1 /\ proc.fatal)

(* C15: whenever main has returned and a browser session was acquired at   *)
(* construction, the session was released by a call of close made before   *)
(* main returned.                                                          *)
C15_ClosedBeforeReturn ==
    (proc.pc = "exited" /\ driver) => proc.released = "close"

\* participate_in_giveaway was called for message j and returned False or raised.
FormFailed(j) == Has("declined", j) \/ Has("participate_raised", j)

(* C16: a call of participate_in_giveaway that returns False or raises     *)
(* does not end the cycle: the loop goes on to the next message, the cycle *)
(* does not end as a cycle-level failure, and when it ends every later     *)
(* message has been classified and, unless its own processing raised,      *)
(* gated and treated as a message of an undisturbed cycle is.              *)
C16_FormFailureDoesNotEscalate ==
    \A i \in 1..Len(cyc.batch) :
        FormFailed(i)
        => /\ cyc.i > i
           /\ cyc.result # "critical"
           /\ cyc.pc = "exit"
               => /\ cyc.result = "completed"
                  /\ \A j \in (i + 1)..Len(cyc.batch) :
                         /\ Has("predict", j)
                         /\ AnyRaised(j) \/ AsUnfailed(j)

\* A completed cycle of three messages: participate_in_giveaway returned
\* False for the first, raised for the second, and the third was classified
\* and skipped at the gate.
C16_Witness ==
    /\ cyc.pc = "exit" /\ cyc.result = "completed"
    /\ Len(cyc.batch) = 3
    /\ Has("declined", 1)
    /\ Has("participate_raised", 2)
    /\ Classified(3) /\ Has("skip", 3)

\* Message j qualifies at the gate, and the loop has gone past it.
Qualifies(j) == Classified(j) /\ LabelOf(j) = TRUE /\ ConfidenceOf(j) > Threshold
Past(j) == cyc.i > j \/ (cyc.pc = "exit" /\ cyc.result = "completed")

(* C18: no step of a cycle changes the read-state of a message (nothing    *)
(* calls mark_as_read), so the messages a cycle fetched are unread when it *)
(* ends; and in every cycle, the first as any later one, a fetched message *)
(* that qualifies at the gate is handed to participate_in_giveaway, also   *)
(* when the cycle before handed the same message over.                     *)
C18_NothingMarkedRead ==
    /\ [][unread' = unread]_vars
    /\ [](\A j \in 1..Len(cyc.batch) : cyc.batch[j] \in unread)
    /\ [](\A j \in 1..Len(cyc.batch) :
            (Qualifies(j) /\ Past(j)) => Has("participate", j))
    /\ [](\A j \in 1..Len(cyc.batch) :
            (cyc.after = "acted" /\ cyc.batch[j] = Giveaway /\ Qualifies(j) /\ Past(j))
            => Has("participate", j))

\* The cycle before this one handed Giveaway to participate_in_giveaway;
\* this one fetched it again, still unread, and has handed it over again.
C18_Witness ==
    /\ cyc.after = "acted"
    /\ cyc.pc = "exit"
    /\ Giveaway \in unread
    /\ \E j \in 1..Len(cyc.batch) :
           cyc.batch[j] = Giveaway /\ Has("participate", j) /\ Has("acted", j)

\* The positions of the log that belong to message j, and the outcome's.
EventsOf(j) == { k \in DOMAIN log : log[k][2] = j }
OutcomeAt(j) == { k \in EventsOf(j) : log[k][1] \in {"skip", "acted", "declined", "fail"} }

(* C19: the messages of a batch are processed one at a time in fetch       *)
(* order: what the cycle does for its messages is recorded in the order of *)
(* their positions in the batch; when anything is done for message j,      *)
(* every message before j has its outcome already, recorded before the     *)
(* first thing done for j; and nothing is done for a message beyond the    *)
(* one in process.                                                         *)
C19_SequentialInFetchOrder ==
    /\ \A k, l \in DOMAIN log :
           (k < l /\ log[k][2] > 0 /\ log[l][2] > 0) => log[k][2] <= log[l][2]
    /\ \A j \in 1..Len(cyc.batch) :
           EventsOf(j) # {}
           => \A i \in 1..(j - 1) :
                  /\ OutcomeAt(i) # {}
                  /\ \A a \in OutcomeAt(i), b \in EventsOf(j) : a < b
    /\ \A j \in 1..Len(cyc.batch) : j > cyc.i => EventsOf(j) = {}

\* A completed cycle of three messages whose outcomes are, in fetch order:
\* acted, skipped, declined.
C19_Witness ==
    /\ cyc.pc = "exit" /\ cyc.result = "completed"
    /\ Len(cyc.batch) = 3
    /\ Has("acted", 1) /\ Has("skip", 2) /\ Has("declined", 3)

Count(e, j) == Cardinality({ k \in DOMAIN log : log[k] = <<e, j>> })
GateEvals(j) == Count("attempt", j) + Count("skip", j)

(* C20: in one cycle, for every message of the batch: the classifier is    *)
(* asked at most once, the gate is evaluated exactly once when the         *)
(* classification returned and not at all when it raised,                  *)
(* participate_in_giveaway is called at most once, and the message gets at *)
(* most one outcome: a failed or skipped message is not processed again.   *)
C20_OncePerMessage ==
    \A j \in 1..Len(cyc.batch) :
        /\ Count("predict", j) <= 1
        /\ Count("confidence", j) <= 1
        /\ Count("participate", j) <= 1
        /\ GateEvals(j) <= 1
        /\ Classified(j) => GateEvals(j) = 1
        /\ ClassRaised(j) => (GateEvals(j) = 0 /\ Count("participate", j) = 0)
        /\ Cardinality(OutcomeAt(j)) <= 1
        /\ (cyc.pc = "exit" /\ cyc.result = "completed") => Cardinality(OutcomeAt(j)) = 1

\* A completed cycle of three messages: the classification of the first
\* raised, the second was skipped at the gate, and participate_in_giveaway
\* was called once for the third and returned False; each has one outcome.
C20_Witness ==
    /\ cyc.pc = "exit" /\ cyc.result = "completed"
    /\ Len(cyc.batch) = 3
    /\ ClassRaised(1) /\ GateEvals(1) = 0
    /\ Has("skip", 2)
    /\ Count("participate", 3) = 1 /\ Has("declined", 3)
    /\ \A j \in 1..3 : Cardinality(OutcomeAt(j)) = 1

\* The three ways the loop body ends for message j: the call of
\* participate_in_giveaway returned (main.py:65), the gate turned the
\* message down (main.py:67), or the handler of main.py:69-71 ran.
ActedOn(j) == Has("participate", j) /\ ~Has("participate_raised", j)
Skipped(j) == Has("skip", j)
Failed(j) == Has("fail", j)
NumActed == Cardinality({ j \in 1..Len(cyc.batch) : ActedOn(j) })
NumSkipped == Cardinality({ j \in 1..Len(cyc.batch) : Skipped(j) })
NumFailed == Cardinality({ j \in 1..Len(cyc.batch) : Failed(j) })

(* C21: when a cycle ends, every fetched message was acted on, skipped or  *)
(* failed, and only one of the three, so the three counts add up to the    *)
(* number fetched; and a cycle whose fetch returned no message ends with   *)
(* all counts zero, completed, with nothing raised and no call of the      *)
(* classifier or the form actor.                                           *)
C21_OutcomesAddUp ==
    cyc.pc = "exit"
    => /\ \A j \in 1..Len(cyc.batch) :
              /\ ActedOn(j) \/ Skipped(j) \/ Failed(j)
              /\ ~(ActedOn(j) /\ Skipped(j))
              /\ ~(ActedOn(j) /\ Failed(j))
              /\ ~(Skipped(j) /\ Failed(j))
       /\ NumActed + NumSkipped + NumFailed = Len(cyc.batch)
       /\ (cyc.listing \in {"ok", "http_error"} /\ cyc.batch = <<>>)
           => /\ NumActed = 0 /\ NumSkipped = 0 /\ NumFailed = 0
              /\ cyc.result = "completed"
              /\ log = <<<<"fetch", 0>>, <<"completed", 0>>>>

\* A completed cycle of three messages with one of each: the first acted
\* on, the second failed, the third skipped.
C21_Witness ==
    /\ cyc.pc = "exit" /\ cyc.result = "completed"
    /\ Len(cyc.batch) = 3
    /\ ActedOn(1) /\ Failed(2) /\ Skipped(3)
    /\ NumActed = 1 /\ NumSkipped = 1 /\ NumFailed = 1

\* What the log holds of the form actor: the gate passed, the call, the
\* navigation, the call's return.
FormEvents == {"attempt", "participate", "navigate", "acted", "declined",
               "participate_raised"}

(* C22: a system whose classifier did not load, or whose browser did not   *)
(* start, is constructed all the same and runs its cycles to completion;   *)
(* with the classifier unavailable no message passes the gate, every       *)
(* message whose classification returned is skipped and                    *)
(* participate_in_giveaway is never called; with the driver missing no     *)
(* call of participate_in_giveaway navigates or returns True; and a        *)
(* once-mode run of such a system ends with exit code 0.                   *)
C22_DegradedPortsAreInert ==
    /\ Unavailable
        => /\ \A k \in DOMAIN log : log[k][1] \notin FormEvents
           /\ \A j \in 1..Len(cyc.batch) : Classified(j) => Skipped(j)
    /\ ~driver
        => \A k \in DOMAIN log : log[k][1] \notin {"navigate", "acted"}
    /\ ((Unavailable \/ ~driver) /\ cyc.pc = "exit" /\ cyc.listing = "ok")
        => /\ cyc.result = "completed"
           /\ \A j \in 1..Len(cyc.batch) : OutcomeAt(j) # {}
    /\ ((Unavailable \/ ~driver) /\ proc.pc = "exited" /\ proc.mode = "once")
        => (proc.code = 0 /\ ~proc.fatal)

\* main() has constructed a system without classifier and without driver,
\* and its cycle has completed over three fetched messages, Giveaway among
\* them, all skipped.
C22_Witness ==
    /\ proc.pc = "top"
    /\ Unavailable /\ ~driver
    /\ cyc.pc = "exit" /\ cyc.result = "completed"
    /\ Len(cyc.batch) = 3
    /\ \E j \in 1..3 : cyc.batch[j] = Giveaway
    /\ \A j \in 1..3 : Skipped(j)

\* The jobs that can fire: those stored in a scheduler that runs.
ActiveJobs == IF sched.state = "running" THEN sched.jobs ELSE 0
StartCalled == caller'.op = "start_scheduler" /\ caller' # caller

(* C23: whatever start_scheduler and stop_scheduler calls were made, the   *)
(* scheduler holds at most one job; a start_scheduler call on a scheduler  *)
(* that runs stores no second job (the call is refused); when              *)
(* stop_scheduler has returned no job is stored and none can fire; and a   *)
(* start_scheduler call after that stores one job again.                   *)
C23_AtMostOneJob ==
    /\ [](sched.jobs <= 1 /\ ActiveJobs <= 1)
    /\ [][(StartCalled /\ sched.state = "running")
            => (sched'.jobs = sched.jobs /\ sched'.jobs = 1)]_vars
    /\ [][(StartCalled /\ sched.state = "stopped") => sched'.jobs = 1]_vars
    /\ []((caller.op = "stop_scheduler" /\ caller.pc = "ready"
            /\ caller.error = "none")
          => (sched.jobs = 0 /\ ActiveJobs = 0 /\ sched.instances = 0))

\* start_scheduler, stop_scheduler, start_scheduler, and start_scheduler
\* once more: the last call was refused and one job is stored.
C23_Witness ==
    /\ ~sched.pool
    /\ sched.state = "running"
    /\ caller.op = "start_scheduler" /\ caller.error = "ConflictingIdError"
    /\ sched.jobs = 1

====
